---------------------------- MODULE Spec2Model ----------------------------
(***************************************************************************)
(* A model of dezoomify-rs (src/src/main.rs): the discovery loop           *)
(* (list_tiles), the zoom-level selection (choose_level, best_size,        *)
(* level_picker), the header map of the HTTP client (client) and the       *)
(* parallel tile phase of dezoomify with its canvas.                       *)
(*                                                                         *)
(* Option<T> is modelled as a sequence of length 0 (None) or 1 (Some(v)).  *)
(* A zoom level is identified by its 1-based index in the vector handed to *)
(* choose_level; Rust's 0-based index i is the model's index i + 1.        *)
(***************************************************************************)
EXTENDS Integers, Sequences, FiniteSets, TLC

VARIABLES
    args,             \* the parsed Arguments
    overflow_checks,  \* build profile: TRUE = arithmetic overflow panics (debug), FALSE = wraps (release)
    http_headers,     \* what http_headers() of the chosen level returns: a HashMap<String, String>
    tiles,            \* what tiles() of the chosen level returns: a Vec<Result<TileReference, _>>
    pc,               \* position of the main thread
    result,           \* how the run ended: None while running, Some(outcome) afterwards
    dezoomer,         \* the Dezoomer found: the answers its zoom_levels gives, call after call
    input,            \* list_tiles' DezoomerInput i: uri and contents
    probe_calls,      \* the inputs zoom_levels has been called with, in order
    fetches,          \* the calls of fetch_uri so far: uri and contents returned (None: an error)
    levels,           \* the Vec<ZoomLevel> handed to choose_level
    zoom_level,       \* the level chosen: None, or Some(index into levels)
    prompts,          \* number of "Which level do you want to download?" prompts printed
    line,             \* level_picker's `line`: what line.parse::<usize>() made of the last line read
    pool_size,        \* threads of the global rayon pool (0: not built yet)
    http_client,      \* the default headers of the Client of line 229: None until it is built
    tile_refs,        \* the Vec<TileReference>: the position of each reference
    total_tiles,      \* tile_refs.len()
    tile_state,       \* per tile reference: where its closure of the parallel iterator is
    progress,         \* the ProgressBar: pos, len, msg
    canvas,           \* the tiles merged into the Canvas
    image,            \* the pixels of the Canvas: for each cell the tile copied there last (0: none)
    successful_tiles, \* the count() of the parallel iterator: None until it has returned
    saved             \* canvas.image().save() has written the output file

env_vars == <<args, overflow_checks, http_headers, tiles>>

disc_vars == <<dezoomer, input, probe_calls, fetches>>

sel_vars == <<levels, zoom_level, prompts, line>>

tile_vars == <<pool_size, http_client, tile_refs, total_tiles, tile_state, progress, canvas,
              image, successful_tiles, saved>>

vars == <<args, overflow_checks, http_headers, tiles, pc, result, dezoomer, input,
          probe_calls, fetches, levels, zoom_level, prompts, line, pool_size, http_client,
          tile_refs, total_tiles, tile_state, progress, canvas, image, successful_tiles, saved>>

-----------------------------------------------------------------------------
(* Option<T> *)

None == <<>>

Some(v) == <<v>>

is_some(o) == Len(o) = 1

unwrap(o) == o[1]

-----------------------------------------------------------------------------
(* Bounds of the model and the input domains *)

\* longest vector of zoom levels handed to choose_level
MaxLevels == 3

\* largest number of lines read from stdin by the level picker
MaxPrompts == 2

\* values given to --max-width: below every width, between the widths, above them
WidthLimits == {2, 9, 65537}

\* values given to --max-height
HeightLimits == {9}

Vec2d(x, y) == [x |-> x, y |-> y]

\* size hints (u32 x u32): two of equal area 16, a wider one of smaller area than
\* a narrower one, and one whose area is 2^32
Sizes ==
    {Vec2d(2, 8), Vec2d(8, 2), Vec2d(8, 8), Vec2d(2, 65536), Vec2d(65536, 65536)}

SizeHintSet == {None} \cup {Some(s) : s \in Sizes}

\* a ZoomLevel as far as main.rs looks at it: its size_hint()
ZoomLevelSet == [size_hint : SizeHintSet]

SeqsUpTo(S, n) == UNION {[1..k -> S] : k \in 0..n}

\* most NeedsData answers of a dezoomer before its final answer
MaxFetches == 2

\* most items of zoom_level.tiles()
MaxTiles == 3

\* largest --num-threads, and most execution units of the machine
MaxThreads == 2

\* the URI of the command line, and the URIs a dezoomer asks for (remote and local)
UserUri == "https://example.org/viewer"

DataUris == {"https://example.org/info.json", "tiles.yaml"}

\* what a fetch can return
Bytes == {"bytes1", "bytes2"}

\* the names of auto::all_dezoomers(true)
DezoomerNames == {"auto", "custom", "google_arts_and_culture", "iiif", "zoomify"}

\* the cells of the canvas; a tile covers the cell at its position
Cells == 1..MaxTiles

\* the positions of the references of a level whose tiles may lie over each other
Positions == {1, 2}

\* the items of zoom_level.tiles(): Ok(TileReference { position, .. }) and Err(_)
TileOk(p) == [ok |-> TRUE, position |-> p]

TileErr == [ok |-> FALSE, position |-> 0]

\* n references side by side, at the positions 1..n
Grid(n) == [k \in 1..n |-> TileOk(k)]

\* HashMap<String, String>: the maps with keys in K and values in V
HashMaps(K, V) == UNION {[D -> V] : D \in SUBSET K}

\* the keys and values of the header maps of a level
LevelHeaderNames == {"User-Agent", "referer", "bad name"}

LevelHeaderValues == {"level-value", "value-with-newline"}

NoHeaders == [n \in {} |-> ""]

-----------------------------------------------------------------------------
(* u32 multiplication, s.x * s.y of best_size.  TLC's integers are 32-bit  *)
(* signed, so the product is computed in 16-bit halves.  The operands are  *)
(* below 2^31.                                                             *)

Two16 == 256 * 256

\* low and high 16-bit halves of a * b, for a, b < 2^16
Lo16(a, b) ==
    LET u == a * (b \div 256)
        v == a * (b % 256)
    IN  (((u % 256) * 256) + v) % Two16

Hi16(a, b) ==
    LET u == a * (b \div 256)
        v == a * (b % 256)
    IN  (u \div 256) + ((((u % 256) * 256) + v) \div Two16)

\* the part of the mathematical product a * b at and above bit 32
mul_upper(a, b) ==
    LET a1 == a \div Two16
        a0 == a % Two16
        b1 == b \div Two16
        b0 == b % Two16
        mid == Hi16(a0, b0) + Lo16(a1, b0) + Lo16(a0, b1)
    IN  (mid \div Two16) + Hi16(a1, b0) + Hi16(a0, b1) + (a1 * b1)

\* a * b modulo 2^32 as <<high half, low half>>
wrapping_mul(a, b) ==
    LET a1 == a \div Two16
        a0 == a % Two16
        b1 == b \div Two16
        b0 == b % Two16
        mid == Hi16(a0, b0) + Lo16(a1, b0) + Lo16(a0, b1)
    IN  <<mid % Two16, Lo16(a0, b0)>>

\* the multiplication overflows u32
mul_overflows(a, b) == mul_upper(a, b) > 0

\* the key of max_by_key, |s| s.x * s.y, in a build that wraps
area_key(s) == wrapping_mul(s.x, s.y)

\* Ord on u32 keys held as <<high, low>>
key_le(k, l) == k[1] < l[1] \/ (k[1] = l[1] /\ k[2] <= l[2])

key_lt(k, l) == k[1] < l[1] \/ (k[1] = l[1] /\ k[2] < l[2])

-----------------------------------------------------------------------------
(* Arguments::best_size *)

\* Iterator::max_by_key: of several maximal elements the last one is returned
RECURSIVE max_fold_first(_, _, _)
max_fold_first(sizes, best, k) ==
    IF k > Len(sizes) THEN best
    ELSE max_fold_first(sizes,
                        IF key_lt(area_key(best), area_key(sizes[k])) THEN sizes[k] ELSE best,
                        k + 1)

RECURSIVE max_fold(_, _, _)
max_fold(sizes, best, k) ==
    IF k > Len(sizes) THEN best
    ELSE max_fold(sizes,
                  IF key_le(area_key(best), area_key(sizes[k])) THEN sizes[k] ELSE best,
                  k + 1)

max_by_key_first(sizes) ==
    IF Len(sizes) = 0 THEN None ELSE Some(max_fold_first(sizes, sizes[1], 2))

max_by_key(sizes) ==
    IF Len(sizes) = 0 THEN None ELSE Some(max_fold(sizes, sizes[1], 2))

\* the closure of .filter() in best_size
within_bounds_inclusive(a, s) ==
    /\ (IF is_some(a.max_width) THEN s.x <= unwrap(a.max_width) ELSE TRUE)
    /\ (IF is_some(a.max_height) THEN s.y <= unwrap(a.max_height) ELSE TRUE)

within_bounds(a, s) ==
    /\ (IF is_some(a.max_width) THEN s.x < unwrap(a.max_width) ELSE TRUE)
    /\ (IF is_some(a.max_height) THEN s.y < unwrap(a.max_height) ELSE TRUE)

\* the sizes whose key max_by_key computes
compared_sizes(a, sizes) ==
    IF a.largest THEN sizes
    ELSE IF is_some(a.max_width) \/ is_some(a.max_height)
         THEN SelectSeq(sizes, LAMBDA s : within_bounds(a, s))
         ELSE <<>>

best_size(a, sizes) ==
    IF a.largest THEN max_by_key(sizes)
    ELSE IF is_some(a.max_width) \/ is_some(a.max_height)
         THEN max_by_key(SelectSeq(sizes, LAMBDA s : within_bounds(a, s)))
         ELSE None

\* s.x * s.y panics in a build with overflow checks
best_size_panics(a, sizes) ==
    /\ overflow_checks
    /\ \E k \in 1..Len(compared_sizes(a, sizes)) :
           mul_overflows(compared_sizes(a, sizes)[k].x, compared_sizes(a, sizes)[k].y)

-----------------------------------------------------------------------------
(* choose_level and level_picker *)

\* levels.iter().filter_map(|l| l.size_hint())
RECURSIVE size_hints(_)
size_hints(ls) ==
    IF Len(ls) = 0 THEN <<>>
    ELSE (IF is_some(ls[1].size_hint) THEN <<unwrap(ls[1].size_hint)>> ELSE <<>>)
         \o size_hints(Tail(ls))

\* levels.iter().find_position(|&l| l.size_hint() == Some(best_size))
find_position(ls, best) ==
    IF \E i \in 1..Len(ls) : ls[i].size_hint = Some(best)
    THEN Some(CHOOSE i \in 1..Len(ls) :
                 /\ ls[i].size_hint = Some(best)
                 /\ \A j \in 1..(i - 1) : ls[j].size_hint # Some(best))
    ELSE None

\* the value of `pos` in choose_level
policy_pos(a, ls) ==
    IF is_some(best_size(a, size_hints(ls)))
    THEN find_position(ls, unwrap(best_size(a, size_hints(ls))))
    ELSE None

\* what choose_level does with its arguments: Err(NoLevels), Ok(level) without
\* a prompt, a panic of s.x * s.y, or the call of level_picker
choose_level_policy_on_single(a, ls) ==
    IF Len(ls) = 0 THEN [kind |-> "NoLevels", level |-> None]
    ELSE IF best_size_panics(a, size_hints(ls)) THEN [kind |-> "panic", level |-> None]
    ELSE IF is_some(policy_pos(a, ls)) THEN [kind |-> "Ok", level |-> policy_pos(a, ls)]
    ELSE [kind |-> "level_picker", level |-> None]

choose_level(a, ls) ==
    IF Len(ls) = 0 THEN [kind |-> "NoLevels", level |-> None]
    ELSE IF Len(ls) = 1 THEN [kind |-> "Ok", level |-> Some(1)]
    ELSE IF best_size_panics(a, size_hints(ls)) THEN [kind |-> "panic", level |-> None]
    ELSE IF is_some(policy_pos(a, ls)) THEN [kind |-> "Ok", level |-> policy_pos(a, ls)]
    ELSE [kind |-> "level_picker", level |-> None]

-----------------------------------------------------------------------------
(* dezoomify: initialize_threadpool and find_zoomlevel *)

Finish(outcome) ==
    /\ pc' = "done"
    /\ result' = Some(outcome)

\* the size of the pool that build_global() makes: num_threads, and the number
\* of execution units when it is absent or 0
threadpool_size_unset(num_threads, cpus) == cpus

threadpool_size(num_threads, cpus) ==
    IF is_some(num_threads) /\ unwrap(num_threads) > 0 THEN unwrap(num_threads) ELSE cpus

initialize_threadpool ==
    /\ pc = "initialize_threadpool"
    /\ \E cpus \in 1..MaxThreads :
          pool_size' = threadpool_size(args.num_threads, cpus)
    /\ pc' = "find_zoomlevel"
    /\ UNCHANGED <<env_vars, result, disc_vars, sel_vars, http_client, tile_refs,
                   total_tiles, tile_state, progress, canvas, image, successful_tiles, saved>>

\* find_zoomlevel up to the call of list_tiles: find_dezoomer, choose_input_uri
\* (a line of stdin when no URI is given; no line: stdin_line panics), client
find_zoomlevel ==
    /\ pc = "find_zoomlevel"
    /\ UNCHANGED <<env_vars, dezoomer, probe_calls, fetches, sel_vars, tile_vars>>
    /\ IF args.dezoomer \notin DezoomerNames
       THEN Finish("NoSuchDezoomer") /\ input' = input
       ELSE IF is_some(args.input_uri)
       THEN /\ input' = [uri |-> unwrap(args.input_uri), contents |-> None]
            /\ pc' = "list_tiles"
            /\ result' = result
       ELSE \E read \in {None, Some(UserUri)} :
               IF is_some(read)
               THEN /\ input' = [uri |-> unwrap(read), contents |-> None]
                    /\ pc' = "list_tiles"
                    /\ result' = result
               ELSE Finish("panic") /\ input' = input

-----------------------------------------------------------------------------
(* list_tiles and fetch_uri *)

\* the answers of Dezoomer::zoom_levels
Ok(ls) == [kind |-> "Ok", uri |-> "", levels |-> ls]

NeedsData(u) == [kind |-> "NeedsData", uri |-> u, levels |-> <<>>]

Err == [kind |-> "Err", uri |-> "", levels |-> <<>>]

\* the answer to the call that is being made
answer == dezoomer[Len(probe_calls) + 1]

\* list_tiles: match dezoomer.zoom_levels(&i)
list_tiles_swallowing_error ==
    /\ pc = "list_tiles"
    /\ probe_calls' = Append(probe_calls, input)
    /\ UNCHANGED <<env_vars, dezoomer, input, fetches, zoom_level, prompts, line, tile_vars>>
    /\ result' = result
    /\ IF answer.kind = "NeedsData"
       THEN pc' = "fetch_uri" /\ levels' = levels
       ELSE pc' = "choose_level" /\ levels' = answer.levels

list_tiles ==
    /\ pc = "list_tiles"
    /\ probe_calls' = Append(probe_calls, input)
    /\ UNCHANGED <<env_vars, dezoomer, input, fetches, zoom_level, prompts, line, tile_vars>>
    /\ IF answer.kind = "Ok"
       THEN pc' = "choose_level" /\ levels' = answer.levels /\ result' = result
       ELSE IF answer.kind = "NeedsData"
       THEN pc' = "fetch_uri" /\ levels' = levels /\ result' = result
       ELSE Finish("Dezoomer") /\ levels' = levels

\* the uri of the NeedsData answer that list_tiles is serving
needed_uri == dezoomer[Len(probe_calls)].uri

starts_with_http(u) == u \in {UserUri, "https://example.org/info.json"}

\* the errors of fetch_uri: of send, error_for_status and read_to_end, or of fs::read
fetch_errors(u) == IF starts_with_http(u) THEN {"Networking", "Io"} ELSE {"Io"}

\* the DezoomerInput after a fetch: uri and contents replaced together
next_input_stale_uri(old, u, contents) == [uri |-> old.uri, contents |-> Some(contents)]

next_input(old, u, contents) == [uri |-> u, contents |-> Some(contents)]

\* the NeedsData arm of list_tiles: fetch_uri(&uri, http)?, then the two assignments
fetch_uri ==
    /\ pc = "fetch_uri"
    /\ UNCHANGED <<env_vars, dezoomer, probe_calls, sel_vars, tile_vars>>
    /\ \E contents \in {None} \cup {Some(b) : b \in Bytes} :
          /\ fetches' = Append(fetches, [uri |-> needed_uri, contents |-> contents])
          /\ IF is_some(contents)
             THEN /\ input' = next_input(input, needed_uri, unwrap(contents))
                  /\ pc' = "list_tiles"
                  /\ result' = result
             ELSE /\ \E e \in fetch_errors(needed_uri) : Finish(e)
                  /\ input' = input

-----------------------------------------------------------------------------
(* choose_level as called by find_zoomlevel, and level_picker *)

\* find_zoomlevel's call choose_level(zoom_levels, args)
call_choose_level ==
    /\ pc = "choose_level"
    /\ UNCHANGED <<env_vars, disc_vars, levels, prompts, line, tile_vars>>
    /\ zoom_level' = choose_level(args, levels).level
    /\ IF choose_level(args, levels).kind = "Ok"
       THEN pc' = "chosen" /\ result' = result
       ELSE IF choose_level(args, levels).kind = "level_picker"
       THEN pc' = "level_picker" /\ result' = result
       ELSE Finish(choose_level(args, levels).kind)

\* what one round of the picker's loop reads: no line (stdin_line panics), or a
\* line and what line.parse::<usize>() makes of it
PickerLines ==
    {[eof |-> TRUE, idx |-> None]}
    \cup {[eof |-> FALSE, idx |-> x] : x \in {None} \cup {Some(n) : n \in 0..MaxLevels}}

\* levels.swap_remove(idx): the level returned, as an index of the vector
swap_remove_last(ls, idx) == Len(ls)

swap_remove(ls, idx) == idx + 1

\* one round of the loop of level_picker
level_picker ==
    /\ pc = "level_picker"
    /\ prompts < MaxPrompts
    /\ prompts' = prompts + 1
    /\ UNCHANGED <<env_vars, disc_vars, levels, tile_vars>>
    /\ \E read \in PickerLines :
          IF read.eof
          THEN Finish("panic") /\ zoom_level' = None /\ line' = line
          ELSE /\ line' = read.idx
               /\ IF is_some(read.idx) /\ unwrap(read.idx) < Len(levels)
                  THEN /\ pc' = "chosen"
                       /\ result' = result
                       /\ zoom_level' = Some(swap_remove(levels, unwrap(read.idx)))
                  ELSE UNCHANGED <<pc, result, zoom_level>>

-----------------------------------------------------------------------------
(* client: the default headers of the reqwest Client *)

\* default_headers(): the map of default_headers.yaml
default_headers == ("user-agent" :> "baseline-agent") @@ ("accept" :> "baseline-accept")

\* name.parse::<HeaderName>(): the name in lower case; no name when it is not a token
parse_name(n) ==
    IF n = "bad name" THEN None
    ELSE IF n = "User-Agent" THEN Some("user-agent")
    ELSE Some(n)

\* value.parse::<HeaderValue>(): the value; no value when it holds a control character
parse_value(v) == IF v = "value-with-newline" THEN None ELSE Some(v)

\* the closure of .map(): the `?` that fails on the pair, if one does
pair_error(n, v) ==
    IF parse_name(n) = None THEN Some("InvalidHeaderName")
    ELSE IF parse_value(v) = None THEN Some("InvalidHeaderValue")
    ELSE None

\* the errors collect() can end with: that of the first failing pair, in the
\* arbitrary order in which a HashMap is iterated
client_errors(headers) ==
    {unwrap(pair_error(n, default_headers[n])) :
        n \in {k \in DOMAIN default_headers : pair_error(k, default_headers[k]) # None}}
    \cup {unwrap(pair_error(n, headers[n])) :
              n \in {k \in DOMAIN headers : pair_error(k, headers[k]) # None}}

\* the values the pairs of the map m give to the header name n
values_of(m, n) ==
    LET K == {k \in DOMAIN m : parse_name(k) = Some(n)}
    IN  IF K = {} THEN <<>> ELSE <<unwrap(parse_value(m[CHOOSE k \in K : TRUE]))>>

\* collect::<HeaderMap>() of first.iter().chain(second.iter()): HeaderMap's
\* from_iter appends every pair, so a name keeps the values of all its pairs,
\* those of `first` before those of `second`
collect(first, second) ==
    [n \in {unwrap(parse_name(k)) : k \in DOMAIN first \cup DOMAIN second} |->
        values_of(first, n) \o values_of(second, n)]

\* the header map that client(headers) hands to default_headers()
client(headers) == collect(default_headers, headers)

-----------------------------------------------------------------------------
(* dezoomify: the tile phase *)

\* tile_refs: the Ok items of zoom_level.tiles(), the others displayed and dropped
filter_map(items) ==
    [k \in 1..Len(SelectSeq(items, LAMBDA r : r.ok)) |->
        SelectSeq(items, LAMBDA r : r.ok)[k].position]

\* lines 229 to 240: the client with the level's headers, tile_refs, the
\* progress bar and the canvas
prepare_tiles ==
    /\ pc = "chosen"
    /\ UNCHANGED <<env_vars, disc_vars, sel_vars, pool_size, successful_tiles, saved>>
    /\ IF client_errors(http_headers) # {}
       THEN /\ \E e \in client_errors(http_headers) : Finish(e)
            /\ UNCHANGED <<http_client, tile_refs, total_tiles, tile_state, progress,
                           canvas, image>>
       ELSE /\ pc' = "par_iter"
            /\ result' = result
            /\ http_client' = Some(client(http_headers))
            /\ tile_refs' = filter_map(tiles)
            /\ total_tiles' = Len(filter_map(tiles))
            /\ tile_state' = [t \in 1..Len(filter_map(tiles)) |-> "todo"]
            /\ progress' = [pos |-> 0, len |-> Len(filter_map(tiles)), msg |-> <<>>]
            /\ canvas' = {}
            /\ image' = [c \in Cells |-> 0]

Tiles == 1..total_tiles

\* the tiles whose closure a thread of the pool is running
Running == {t \in Tiles : tile_state[t] \in {"download", "lock", "add_tile"}}

\* a thread of the pool is free to take an item
thread_free_never == FALSE

thread_free == Cardinality(Running) < pool_size

\* the progress bar when the closure of tile t starts: inc(1), set_message
progress_at_start_untouched(pr, t) == pr

progress_at_start_twice(pr, t) ==
    [pr EXCEPT !.pos = pr.pos + 2, !.msg = <<"Downloading tile at", t>>]

progress_at_start(pr, t) ==
    [pr EXCEPT !.pos = pr.pos + 1, !.msg = <<"Downloading tile at", t>>]

\* a thread of the pool takes tile t: progress.inc(1), progress.set_message,
\* and the call of Tile::download
start_tile(t) ==
    /\ pc = "par_iter"
    /\ tile_state[t] = "todo"
    /\ thread_free
    /\ tile_state' = [tile_state EXCEPT ![t] = "download"]
    /\ progress' = progress_at_start(progress, t)
    /\ UNCHANGED <<env_vars, pc, result, disc_vars, sel_vars, pool_size, http_client,
                   tile_refs, total_tiles, canvas, image, successful_tiles, saved>>

\* Tile::download returns: Err ends the attempt, Ok goes on to canvas.lock()
download(t) ==
    /\ pc = "par_iter"
    /\ tile_state[t] = "download"
    /\ \E ok \in BOOLEAN :
          /\ tile_state' = [tile_state EXCEPT ![t] = IF ok THEN "lock" ELSE "failed"]
    /\ UNCHANGED <<env_vars, pc, result, disc_vars, sel_vars, pool_size, http_client,
                   tile_refs, total_tiles, progress, canvas, image, successful_tiles, saved>>

\* canvas.lock().unwrap(): the mutex is free
lock_unguarded(t) ==
    /\ pc = "par_iter"
    /\ tile_state[t] = "lock"
    /\ tile_state' = [tile_state EXCEPT ![t] = "add_tile"]
    /\ UNCHANGED <<env_vars, pc, result, disc_vars, sel_vars, pool_size, http_client,
                   tile_refs, total_tiles, progress, canvas, image, successful_tiles, saved>>

lock(t) ==
    /\ pc = "par_iter"
    /\ tile_state[t] = "lock"
    /\ \A u \in Tiles : tile_state[u] # "add_tile"
    /\ tile_state' = [tile_state EXCEPT ![t] = "add_tile"]
    /\ UNCHANGED <<env_vars, pc, result, disc_vars, sel_vars, pool_size, http_client,
                   tile_refs, total_tiles, progress, canvas, image, successful_tiles, saved>>

\* Canvas::add_tile copies the pixels of tile t to its position: a later tile
\* replaces what an earlier one left there
copy_from(img, t, p) == [img EXCEPT ![p] = t]

\* add_tile(&tile) returns and the guard is dropped; on an error the canvas is
\* as it was
add_tile_discarding(t) ==
    /\ pc = "par_iter"
    /\ tile_state[t] = "add_tile"
    /\ \E ok \in BOOLEAN :
          tile_state' = [tile_state EXCEPT ![t] = IF ok THEN "ok" ELSE "failed"]
    /\ UNCHANGED <<env_vars, pc, result, disc_vars, sel_vars, pool_size, http_client,
                   tile_refs, total_tiles, progress, canvas, image, successful_tiles, saved>>

add_tile(t) ==
    /\ pc = "par_iter"
    /\ tile_state[t] = "add_tile"
    /\ \E ok \in BOOLEAN :
          /\ tile_state' = [tile_state EXCEPT ![t] = IF ok THEN "ok" ELSE "failed"]
          /\ canvas' = IF ok THEN canvas \cup {t} ELSE canvas
          /\ image' = IF ok THEN copy_from(image, t, tile_refs[t]) ELSE image
    /\ UNCHANGED <<env_vars, pc, result, disc_vars, sel_vars, pool_size, http_client,
                   tile_refs, total_tiles, progress, successful_tiles, saved>>

\* .count() returns once every item has been through the closure
count_not_joining ==
    /\ pc = "par_iter"
    /\ successful_tiles' = Some(Cardinality({t \in Tiles : tile_state[t] = "ok"}))
    /\ pc' = "final_msg"
    /\ UNCHANGED <<env_vars, result, disc_vars, sel_vars, pool_size, http_client,
                   tile_refs, total_tiles, tile_state, progress, canvas, image, saved>>

count_on_first_error ==
    /\ pc = "par_iter"
    /\ \/ \A t \in Tiles : tile_state[t] \in {"ok", "failed"}
       \/ \E t \in Tiles : tile_state[t] = "failed"
    /\ successful_tiles' = Some(Cardinality({t \in Tiles : tile_state[t] = "ok"}))
    /\ pc' = "final_msg"
    /\ UNCHANGED <<env_vars, result, disc_vars, sel_vars, pool_size, http_client,
                   tile_refs, total_tiles, tile_state, progress, canvas, image, saved>>

count ==
    /\ pc = "par_iter"
    /\ \A t \in Tiles : tile_state[t] \in {"ok", "failed"}
    /\ successful_tiles' = Some(Cardinality({t \in Tiles : tile_state[t] = "ok"}))
    /\ pc' = "final_msg"
    /\ UNCHANGED <<env_vars, result, disc_vars, sel_vars, pool_size, http_client,
                   tile_refs, total_tiles, tile_state, progress, canvas, image, saved>>

\* the final message of dezoomify; <<>> stands for the return of Err(NoTile)
final_msg_no_partial(successful, total) ==
    IF successful = total THEN <<"Downloaded all tiles.">> ELSE <<>>

final_msg(successful, total) ==
    IF successful = total THEN <<"Downloaded all tiles.">>
    ELSE IF successful > 0
         THEN <<"Successfully downloaded", successful, "tiles out of", total>>
         ELSE <<>>

\* lines 256 to 277: the final message and canvas.image().save(&args.outfile)
save ==
    /\ pc = "final_msg"
    /\ UNCHANGED <<env_vars, disc_vars, sel_vars, pool_size, http_client, tile_refs,
                   total_tiles, tile_state, canvas, image, successful_tiles>>
    /\ IF final_msg(unwrap(successful_tiles), total_tiles) = <<>>
       THEN Finish("NoTile") /\ UNCHANGED <<progress, saved>>
       ELSE /\ progress' = [progress EXCEPT
                               !.msg = final_msg(unwrap(successful_tiles), total_tiles)]
            /\ \E written \in BOOLEAN :
                  /\ saved' = written
                  /\ Finish(IF written THEN "Ok" ELSE "Image")

-----------------------------------------------------------------------------
(* The specifications *)

ArgumentsSet ==
    [input_uri : {None, Some(UserUri)},
     dezoomer : {"auto", "nosuch"},
     largest : BOOLEAN,
     max_width : {None} \cup {Some(w) : w \in WidthLimits},
     max_height : {None} \cup {Some(h) : h \in HeightLimits},
     num_threads : {None} \cup {Some(n) : n \in 0..MaxThreads}]

\* the state of the variables a specification does not start from
IdleDiscovery ==
    /\ dezoomer = <<>>
    /\ input = [uri |-> "", contents |-> None]
    /\ probe_calls = <<>>
    /\ fetches = <<>>

IdleSelection ==
    /\ levels = <<>>
    /\ zoom_level = None
    /\ prompts = 0
    /\ line = None

IdleTiles ==
    /\ http_client = None
    /\ tile_refs = <<>>
    /\ total_tiles = 0
    /\ tile_state = <<>>
    /\ progress = [pos |-> 0, len |-> 0, msg |-> <<>>]
    /\ canvas = {}
    /\ image = <<>>
    /\ successful_tiles = None
    /\ saved = FALSE

(* The selection on its own: choose_level applied to every vector of at    *)
(* most MaxLevels levels, under every selection policy and build profile.  *)
InitLevel ==
    /\ args \in {a \in ArgumentsSet :
                    a.input_uri # None /\ a.dezoomer = "auto" /\ a.num_threads = None}
    /\ overflow_checks \in BOOLEAN
    /\ http_headers = NoHeaders
    /\ tiles = <<>>
    /\ pc = "choose_level"
    /\ result = None
    /\ IdleDiscovery
    /\ levels \in SeqsUpTo(ZoomLevelSet, MaxLevels)
    /\ zoom_level = None
    /\ prompts = 0
    /\ line = None
    /\ pool_size = 1
    /\ IdleTiles

NextLevel == call_choose_level \/ level_picker

SpecLevel == InitLevel /\ [][NextLevel]_vars

(* find_zoomlevel on its own: every dezoomer that asks for at most         *)
(* MaxFetches URIs before its final answer, every outcome of every fetch.   *)
Level(h) == [size_hint |-> h]

\* the vectors of levels a dezoomer of these specifications answers with
AnsweredLevels ==
    {<<>>,
     <<Level(Some(Vec2d(8, 8)))>>,
     <<Level(None), Level(Some(Vec2d(2, 8))), Level(Some(Vec2d(8, 2)))>>}

FinalAnswers == {Err} \cup {Ok(ls) : ls \in AnsweredLevels}

\* n NeedsData answers, then a final answer
Scripts(n) ==
    {Append([k \in 1..m |-> NeedsData(us[k])], final) :
        m \in {n}, us \in [1..n -> DataUris], final \in FinalAnswers}

InitList ==
    /\ args \in {a \in ArgumentsSet :
                    a.max_width = None /\ a.max_height = None /\ a.num_threads = None}
    /\ overflow_checks = FALSE
    /\ http_headers = NoHeaders
    /\ tiles = <<>>
    /\ pc = "find_zoomlevel"
    /\ result = None
    /\ dezoomer \in UNION {Scripts(n) : n \in 0..MaxFetches}
    /\ input = [uri |-> "", contents |-> None]
    /\ probe_calls = <<>>
    /\ fetches = <<>>
    /\ IdleSelection
    /\ pool_size = 1
    /\ IdleTiles

NextList ==
    find_zoomlevel \/ list_tiles \/ fetch_uri \/ call_choose_level \/ level_picker

SpecList == InitList /\ [][NextList]_vars

(* A whole run of dezoomify: a few dezoomers, every --num-threads, every    *)
(* enumeration of at most MaxTiles tiles, every outcome of every tile and   *)
(* every schedule of the pool.                                              *)
Init ==
    /\ args \in {a \in ArgumentsSet :
                    /\ a.input_uri # None
                    /\ ~a.largest /\ a.max_width = None /\ a.max_height = None}
    /\ overflow_checks = FALSE
    /\ http_headers \in {NoHeaders, "referer" :> "value-with-newline"}
    /\ tiles \in {Grid(n) : n \in 0..MaxTiles} \cup {<<TileErr>>}
    /\ pc = "initialize_threadpool"
    /\ result = None
    /\ dezoomer \in Scripts(0)
                     \cup {<<NeedsData("tiles.yaml"), Ok(<<Level(Some(Vec2d(8, 8)))>>)>>,
                           <<NeedsData("https://example.org/info.json"), Err>>}
    /\ input = [uri |-> "", contents |-> None]
    /\ probe_calls = <<>>
    /\ fetches = <<>>
    /\ IdleSelection
    /\ pool_size = 0
    /\ IdleTiles

Next ==
    \/ initialize_threadpool
    \/ find_zoomlevel
    \/ list_tiles
    \/ fetch_uri
    \/ call_choose_level
    \/ level_picker
    \/ prepare_tiles
    \/ \E t \in Tiles : start_tile(t)
    \/ \E t \in Tiles : download(t)
    \/ \E t \in Tiles : lock(t)
    \/ \E t \in Tiles : add_tile(t)
    \/ count
    \/ save

Spec == Init /\ [][Next]_vars

(* The tile phase on its own, from the return of find_zoomlevel: every      *)
(* enumeration of at most MaxTiles items whose references lie side by side  *)
(* or over each other, every size of the pool, every outcome of every tile  *)
(* and every schedule.                                                      *)
AfterFindZoomlevel ==
    /\ args = [input_uri |-> Some(UserUri), dezoomer |-> "auto", largest |-> FALSE,
               max_width |-> None, max_height |-> None, num_threads |-> None]
    /\ overflow_checks = FALSE
    /\ pc = "chosen"
    /\ result = None
    /\ dezoomer = <<Ok(<<Level(Some(Vec2d(8, 8)))>>)>>
    /\ input = [uri |-> UserUri, contents |-> None]
    /\ probe_calls = <<[uri |-> UserUri, contents |-> None]>>
    /\ fetches = <<>>
    /\ levels = <<Level(Some(Vec2d(8, 8)))>>
    /\ zoom_level = Some(1)
    /\ prompts = 0
    /\ line = None
    /\ IdleTiles

InitTiles ==
    /\ AfterFindZoomlevel
    /\ http_headers = NoHeaders
    /\ tiles \in SeqsUpTo({TileErr} \cup {TileOk(p) : p \in Positions}, MaxTiles)
    /\ pool_size \in 1..MaxThreads

NextTiles ==
    \/ prepare_tiles
    \/ \E t \in Tiles : start_tile(t)
    \/ \E t \in Tiles : download(t)
    \/ \E t \in Tiles : lock(t)
    \/ \E t \in Tiles : add_tile(t)
    \/ count
    \/ save

SpecTiles == InitTiles /\ [][NextTiles]_vars

(* The tile phase with the scheduling that termination rests on: every     *)
(* call of Tile::download and of add_tile returns, a thread of the pool    *)
(* that is free takes an item, a thread waiting for the mutex gets it once *)
(* it stays free, and the main thread goes on.  The references lie side by *)
(* side: where a tile is copied to has no part in the scheduling.          *)
InitFair ==
    /\ AfterFindZoomlevel
    /\ http_headers = NoHeaders
    /\ tiles \in {Grid(n) : n \in 0..MaxTiles}
    /\ pool_size \in 1..MaxThreads

FairSpecTiles ==
    /\ InitFair
    /\ [][NextTiles]_vars
    /\ WF_vars(prepare_tiles)
    /\ WF_vars(\E t \in Tiles : start_tile(t))
    /\ WF_vars(\E t \in Tiles : download(t))
    /\ WF_vars(\E t \in Tiles : lock(t))
    /\ WF_vars(\E t \in Tiles : add_tile(t))
    /\ WF_vars(count)
    /\ WF_vars(save)

(* client applied to the header maps of a level: every map with keys in    *)
(* LevelHeaderNames and values in LevelHeaderValues.                       *)
InitClient ==
    /\ AfterFindZoomlevel
    /\ http_headers \in HashMaps(LevelHeaderNames, LevelHeaderValues)
    /\ tiles = Grid(1)
    /\ pool_size \in 1..MaxThreads

SpecClient == InitClient /\ [][NextTiles]_vars

-----------------------------------------------------------------------------
(* Vocabulary of the properties of the selection *)

hint(i) == unwrap(levels[i].size_hint)

\* the levels that have a size hint
Hinted == {i \in 1..Len(levels) : is_some(levels[i].size_hint)}

\* a size hint satisfies every bound given on the command line, strictly
SatisfiesBounds(s) ==
    /\ (args.max_width # None => s.x < args.max_width[1])
    /\ (args.max_height # None => s.y < args.max_height[1])

\* the levels a policy compares: all hinted ones under "largest", the bounded ones otherwise
Eligible ==
    IF args.largest THEN Hinted ELSE {i \in Hinted : SatisfiesBounds(hint(i))}

\* the mathematical area x * y, as <<bits from 32 up, bits 16..31, bits 0..15>>
Area(s) == <<mul_upper(s.x, s.y)>> \o wrapping_mul(s.x, s.y)

AreaLess(s, t) ==
    LET a == Area(s)
        b == Area(t)
    IN  \/ a[1] < b[1]
        \/ a[1] = b[1] /\ a[2] < b[2]
        \/ a[1] = b[1] /\ a[2] = b[2] /\ a[3] < b[3]

\* the u32 value s.x * s.y that a wrapping build compares, as <<bits 16..31, bits 0..15>>
AreaKey(s) == wrapping_mul(s.x, s.y)

AreaKeyLess(s, t) ==
    LET a == AreaKey(s)
        b == AreaKey(t)
    IN  \/ a[1] < b[1]
        \/ a[1] = b[1] /\ a[2] < b[2]

\* choose_level has returned a level of a vector of several levels without prompting
ReturnedByPolicy == pc = "chosen" /\ prompts = 0 /\ Len(levels) >= 2

Chosen == unwrap(zoom_level)

Bijections(n) == {p \in [1..n -> 1..n] : \A i, j \in 1..n : p[i] = p[j] => i = j}

Permuted(ls, p) == [k \in 1..Len(ls) |-> ls[p[k]]]

-----------------------------------------------------------------------------
(* C4 *)

HintsPairwiseDistinct ==
    \A i, j \in Hinted : i # j => levels[i].size_hint # levels[j].size_hint

MaxAreaLevels(S) == {i \in S : \A j \in S : ~AreaLess(hint(i), hint(j))}

\* C4: with the "largest" policy and two or more levels whose size hints are
\* pairwise distinct, choose_level returns a hinted level of maximum area
\* width * height, and when a single level reaches that area every permutation
\* of the vector returns the same level.
C4_LargestSelectsMaxArea ==
    (/\ pc # "choose_level"
     /\ args.largest
     /\ Len(levels) >= 2
     /\ Hinted # {}
     /\ HintsPairwiseDistinct)
    => /\ ReturnedByPolicy
       /\ Chosen \in MaxAreaLevels(Hinted)
       /\ Cardinality(MaxAreaLevels(Hinted)) = 1 =>
             \A p \in Bijections(Len(levels)) :
                /\ choose_level(args, Permuted(levels, p)).kind = "Ok"
                /\ p[choose_level(args, Permuted(levels, p)).level[1]] = Chosen

-----------------------------------------------------------------------------
(* C5 *)

MaxKeyLevels(S) == {i \in S : \A j \in S : ~AreaKeyLess(hint(i), hint(j))}

LastOf(S) == CHOOSE i \in S : \A j \in S : j <= i

-----------------------------------------------------------------------------
(* C6 *)

\* C6 as stated: whenever a max-width bound W is given, the level returned has
\* a size hint of width strictly below W, and no other level whose hint
\* satisfies all given bounds has strictly greater area.
C6_BoundedWidthAlways ==
    (pc = "chosen" /\ args.max_width # None)
    => /\ Chosen \in Hinted
       /\ hint(Chosen).x < args.max_width[1]
       /\ \A j \in Hinted :
             SatisfiesBounds(hint(j)) => ~AreaLess(hint(Chosen), hint(j))

\* C6 amended: with two or more levels, a max-width bound W given and "largest"
\* not given, a level returned without prompting has a size hint of width
\* strictly below W that satisfies every given bound, and no other level whose
\* hint satisfies all given bounds has a strictly greater area key.
C6_BoundedWidthByPolicy ==
    (ReturnedByPolicy /\ args.max_width # None /\ ~args.largest)
    => /\ Chosen \in Hinted
       /\ hint(Chosen).x < args.max_width[1]
       /\ SatisfiesBounds(hint(Chosen))
       /\ \A j \in Hinted :
             SatisfiesBounds(hint(j)) => ~AreaKeyLess(hint(Chosen), hint(j))

\* the bound excludes a level of greater area than the one returned
C6_Witness ==
    /\ ReturnedByPolicy
    /\ args.max_width # None
    /\ ~args.largest
    /\ \E j \in Hinted :
          /\ ~SatisfiesBounds(hint(j))
          /\ AreaLess(hint(Chosen), hint(j))

-----------------------------------------------------------------------------
(* C7 *)

\* C7: with several levels and only --max-width W given, the level selected has
\* the largest width among the levels of width below W; with only --max-height
\* H, the largest height among the levels of height below H.
C7_LargestWidthBelowBound ==
    /\ (ReturnedByPolicy /\ ~args.largest /\ args.max_width # None /\ args.max_height = None)
       => /\ Chosen \in Hinted
          /\ hint(Chosen).x < args.max_width[1]
          /\ \A j \in Hinted :
                hint(j).x < args.max_width[1] => hint(j).x <= hint(Chosen).x
    /\ (ReturnedByPolicy /\ ~args.largest /\ args.max_height # None /\ args.max_width = None)
       => /\ Chosen \in Hinted
          /\ hint(Chosen).y < args.max_height[1]
          /\ \A j \in Hinted :
                hint(j).y < args.max_height[1] => hint(j).y <= hint(Chosen).y

-----------------------------------------------------------------------------
(* C8 *)

\* C8: choose_level of an empty vector fails with NoLevels; of a vector of
\* exactly one level it returns that level, whatever the flags, the bounds and
\* the level's size hint, without prompting.
C8_EmptyAndSingle ==
    /\ (pc # "choose_level" /\ Len(levels) = 0)
       => (pc = "done" /\ result = Some("NoLevels") /\ zoom_level = None /\ prompts = 0)
    /\ (pc # "choose_level" /\ Len(levels) = 1)
       => (pc = "chosen" /\ result = None /\ zoom_level = Some(1) /\ prompts = 0)

\* a single level that no policy would select: no size hint, or a hint outside the bounds
C8_Witness ==
    /\ pc = "chosen"
    /\ Len(levels) = 1
    /\ zoom_level = Some(1)
    /\ args.max_width # None
    /\ (1 \in Hinted => ~SatisfiesBounds(hint(1)))

-----------------------------------------------------------------------------
(* C3 *)

\* the URI the user gave: on the command line, or on stdin
GivenUri == UserUri

\* the number of NeedsData answers of the dezoomer before its final answer
NeedsDataCount == Len(dezoomer) - 1

\* list_tiles has returned Ok(levels): the final answer is a success and has been given
ListTilesReturned ==
    /\ Len(dezoomer) > 0
    /\ dezoomer[Len(dezoomer)].kind = "Ok"
    /\ Len(probe_calls) = Len(dezoomer)

\* C3: when the dezoomer answers NeedsData for u1..uN and then succeeds, and
\* every fetch succeeds, list_tiles makes exactly N fetches, of u1..uN in this
\* order, one after each NeedsData answer; the first call of zoom_levels gets
\* the user's URI and no contents, call k+1 gets uk and the bytes fetched for
\* uk; the levels returned are those of call N+1, and no call or fetch follows.
C3_ResolutionLoop ==
    /\ Len(fetches) <= Len(probe_calls)
    /\ Len(probe_calls) <= Len(fetches) + 1
    /\ \A k \in 1..Len(fetches) : fetches[k].uri = dezoomer[k].uri
    /\ \A k \in 1..Len(probe_calls) :
          IF k = 1
          THEN probe_calls[k] = [uri |-> GivenUri, contents |-> None]
          ELSE /\ fetches[k - 1].contents # None
               /\ probe_calls[k] =
                     [uri |-> dezoomer[k - 1].uri, contents |-> fetches[k - 1].contents]
    /\ ListTilesReturned =>
          /\ Len(fetches) = NeedsDataCount
          /\ Len(probe_calls) = NeedsDataCount + 1
          /\ pc # "list_tiles" /\ pc # "fetch_uri"
          /\ levels = dezoomer[NeedsDataCount + 1].levels

\* two different URIs asked for, two different contents fetched, the levels returned
C3_Witness ==
    /\ ListTilesReturned
    /\ pc = "chosen"
    /\ NeedsDataCount = 2
    /\ fetches[1].uri # fetches[2].uri
    /\ fetches[1].contents # fetches[2].contents
    /\ Len(levels) = 3

-----------------------------------------------------------------------------
(* Vocabulary of the properties of the tile phase *)

\* the tile phase is over: count() has returned
TilePhaseOver == successful_tiles # None

\* the tiles whose download is in flight
InFlight == {t \in Tiles : tile_state[t] = "download"}

\* the tiles whose attempt has completed
Completed == {t \in Tiles : tile_state[t] \in {"ok", "failed"}}

\* dezoomify reached canvas.image().save()
WentOnToSave == pc = "done" /\ result \in {Some("Ok"), Some("Image")}

-----------------------------------------------------------------------------
(* C1 *)

\* C1: after the tile phase, whenever no tile was downloaded and merged, for
\* every number of enumerated references, zero included, the run fails with
\* NoTile and no image is saved.
C1_ZeroTilesIsNoTile ==
    (pc = "done" /\ successful_tiles = Some(0))
    => (result = Some("NoTile") /\ ~saved)

-----------------------------------------------------------------------------
(* C2 *)

-----------------------------------------------------------------------------
(* C9 *)

\* C9: at every moment the number of tile downloads in flight is at most the
\* configured num_threads, a positive number that initialize_threadpool fixes
\* as the size of the pool before any discovery or tile fetch.
C9_BoundedDownloads ==
    /\ (pc # "initialize_threadpool") => pool_size >= 1
    /\ (pc = "initialize_threadpool")
       => (probe_calls = <<>> /\ fetches = <<>> /\ total_tiles = 0 /\ tile_state = <<>>)
    /\ Cardinality(InFlight) <= pool_size \/ pc = "initialize_threadpool"
    /\ (args.num_threads # None /\ args.num_threads # Some(0) /\ pc # "initialize_threadpool")
       => /\ pool_size = args.num_threads[1]
          /\ Cardinality(InFlight) <= args.num_threads[1]

\* as many downloads in flight as threads configured, and a tile waiting for a thread
C9_Witness ==
    /\ args.num_threads = Some(2)
    /\ Cardinality(InFlight) = 2
    /\ \E t \in Tiles : tile_state[t] = "todo"

-----------------------------------------------------------------------------
(* C10 *)

\* C10 as stated: at every moment of the tile phase the progress count is the
\* number of tile attempts that have completed.
C10_ProgressCountsCompleted ==
    (pc = "par_iter") => progress.pos = Cardinality(Completed)

\* C10 amended: the progress bar is notified when the attempt of a tile starts,
\* before its download: at every moment of the tile phase the progress count is
\* the number of attempts started, completed or still in flight.
C10_ProgressCountsStarted ==
    (pc \in {"par_iter", "final_msg"} \/ TilePhaseOver)
    => /\ progress.pos = Cardinality({t \in Tiles : tile_state[t] # "todo"})
       /\ progress.pos = Cardinality(Completed) + Cardinality(Running)
       /\ progress.len = total_tiles

\* a download in flight is counted while no attempt has completed
C10_Witness ==
    /\ pc = "par_iter"
    /\ InFlight # {}
    /\ Completed = {}
    /\ progress.pos = Cardinality(InFlight)
    /\ progress.pos >= 1

-----------------------------------------------------------------------------
(* C11 *)

\* no two tile references have the same position
NonOverlapping == \A t, u \in Tiles : t # u => tile_refs[t] # tile_refs[u]

\* the tiles whose download and merge succeeded
Succeeded == {t \in Tiles : tile_state[t] = "ok"}

\* the canvas of the run that merges the tiles 1..k one after the other in the
\* order of the references, each tile with the outcome it had
RECURSIVE SequentialImage(_)
SequentialImage(k) ==
    IF k = 0 THEN [c \in Cells |-> 0]
    ELSE IF k \in Succeeded
         THEN [SequentialImage(k - 1) EXCEPT ![tile_refs[k]] = k]
         ELSE SequentialImage(k - 1)

\* C11: for tile references no two of which overlap, whatever the size of the
\* pool (one thread or several) and whatever the order in which the threads
\* download and merge, the tile phase ends with the canvas that merging the
\* tiles one by one gives for the same per-tile outcomes, and with the count
\* of the tiles that succeeded.
C11_SameCanvasAndCount ==
    (TilePhaseOver /\ NonOverlapping)
    => /\ image = SequentialImage(total_tiles)
       /\ unwrap(successful_tiles) = Cardinality(Succeeded)
       /\ canvas = Succeeded

\* several threads, two tiles side by side listed right to left, both merged,
\* and an item of the enumeration that was dropped
C11_Witness ==
    /\ TilePhaseOver
    /\ pool_size >= 2
    /\ NonOverlapping
    /\ tile_refs = <<2, 1>>
    /\ Succeeded = {1, 2}
    /\ image[1] = 2 /\ image[2] = 1
    /\ Len(tiles) = 3

-----------------------------------------------------------------------------
(* C12 *)

-----------------------------------------------------------------------------
(* C13 *)

\* a step of the tile phase in which the attempt of tile t ends in a failure
Fails(t) == tile_state[t] # "failed" /\ tile_state'[t] = "failed"

\* C13: every enumerated reference is attempted exactly once whatever becomes
\* of the others: when the tile phase is over every tile has been through its
\* attempt; an attempt starts only for a tile not yet attempted and is never
\* started again; the failure of a tile (download, decode or add_tile) changes
\* the state of no other tile, and leaves the run in the tile phase, not ended.
C13_EveryTileAttemptedOnce ==
    /\ [](TilePhaseOver => Completed = Tiles)
    /\ [](pc = "par_iter" => result = None)
    /\ [][pc = "par_iter" =>
            \A t \in Tiles :
               /\ tile_state[t] # "todo" => tile_state'[t] # "todo"
               /\ (tile_state[t] # "download" /\ tile_state'[t] = "download")
                  => tile_state[t] = "todo"
               /\ t \in Completed => tile_state'[t] = tile_state[t]
               /\ Fails(t) =>
                     /\ pc' = "par_iter"
                     /\ result' = None
                     /\ \A u \in Tiles \ {t} : tile_state'[u] = tile_state[u]]_vars

\* the first and the last of three tiles failed, the one between them was
\* downloaded and merged
C13_Witness ==
    /\ TilePhaseOver
    /\ total_tiles = 3
    /\ tile_state = <<"failed", "ok", "failed">>
    /\ canvas = {2}

-----------------------------------------------------------------------------
(* C14 *)

\* the tiles whose thread holds the mutex of the canvas and is in add_tile
Merging == {t \in Tiles : tile_state[t] = "add_tile"}

\* C14: at most one thread is in Canvas::add_tile at any time; the canvas
\* changes only in a step of the one thread that holds the mutex; a thread
\* that starts or ends a download (with its decoding) neither holds nor takes
\* the mutex in that step, so downloads go on while a merge is under way.
C14_MergesSerialized ==
    /\ [](Cardinality(Merging) <= 1)
    /\ [][(canvas' # canvas \/ image' # image) /\ pc = "par_iter" =>
            \E t \in Tiles :
               /\ Merging = {t}
               /\ tile_state'[t] = "ok"
               /\ canvas' = canvas \cup {t}]_vars
    /\ [][\A t \in Tiles :
            (/\ tile_state'[t] # tile_state[t]
             /\ tile_state[t] = "download" \/ tile_state'[t] = "download")
            => (t \notin Merging /\ Merging' = Merging)]_vars

\* one thread merges its tile while another downloads and a third tile has
\* been merged already
C14_Witness ==
    /\ pc = "par_iter"
    /\ \E t, u, v \in Tiles :
          /\ tile_state[t] = "add_tile"
          /\ tile_state[u] = "download"
          /\ tile_state[v] = "ok"

-----------------------------------------------------------------------------
(* C15 *)

\* the tiles whose attempt starts in a step
Starting == {t \in Tiles : tile_state[t] = "todo" /\ tile_state'[t] # "todo"}

\* C15: the progress counter is 0 and its length is T, the number of
\* references enumerated, when the tile phase starts; it never decreases; in
\* the tile phase it grows by one in the step in which the attempt of a tile
\* starts and in no other step, whatever the order of the steps and whatever
\* becomes of the tile; it is T when the tile phase is over.
C15_ProgressExactlyOnce ==
    /\ []((pc = "par_iter" /\ \A t \in Tiles : tile_state[t] = "todo")
          => (progress.pos = 0 /\ progress.len = total_tiles))
    /\ [](TilePhaseOver => (progress.pos = total_tiles /\ progress.len = total_tiles))
    /\ [][progress'.pos >= progress.pos]_vars
    /\ [][pc = "par_iter" =>
            /\ Cardinality(Starting) <= 1
            /\ progress'.pos = progress.pos + Cardinality(Starting)
            /\ progress'.len = progress.len]_vars

\* three tiles attempted by several threads, one merged and two failed, and the
\* counter at three
C15_Witness ==
    /\ TilePhaseOver
    /\ pool_size >= 2
    /\ total_tiles = 3
    /\ progress.pos = 3
    /\ progress.len = 3
    /\ Cardinality(Succeeded) = 1

-----------------------------------------------------------------------------
(* C16 *)

\* the last call of zoom_levels returned an error other than NeedsData
ProbeFailed == probe_calls # <<>> /\ dezoomer[Len(probe_calls)].kind = "Err"

\* the last call of fetch_uri failed
FetchFailed == fetches # <<>> /\ fetches[Len(fetches)].contents = None

\* find_dezoomer has looked for a name that no dezoomer has
UnknownDezoomer ==
    args.dezoomer \notin DezoomerNames /\ pc \notin {"initialize_threadpool", "find_zoomlevel"}

\* choose_level has been called with no level
NoLevelsFound == ListTilesReturned /\ levels = <<>> /\ pc # "choose_level"

\* nothing of the tile phase has happened
NoTileStarted ==
    /\ http_client = None
    /\ total_tiles = 0
    /\ tile_state = <<>>
    /\ progress.pos = 0
    /\ canvas = {}
    /\ successful_tiles = None
    /\ ~saved

\* C16: when the probe returns an error other than NeedsData, a discovery
\* fetch fails, the dezoomer name is unknown or choose_level is given no
\* level, the run has ended with that error in the same step: the failing call
\* is the last probe call or the last fetch, no step follows, no tile download
\* has started and no image is saved.
C16_DiscoveryErrorsAreTerminal ==
    /\ [](ProbeFailed =>
            /\ pc = "done" /\ result = Some("Dezoomer")
            /\ Len(fetches) = Len(probe_calls) - 1
            /\ NoTileStarted)
    /\ [](FetchFailed =>
            /\ pc = "done" /\ result \in {Some(e) : e \in fetch_errors(fetches[Len(fetches)].uri)}
            /\ Len(probe_calls) = Len(fetches)
            /\ NoTileStarted)
    /\ [](UnknownDezoomer =>
            /\ pc = "done" /\ result = Some("NoSuchDezoomer")
            /\ probe_calls = <<>> /\ fetches = <<>>
            /\ NoTileStarted)
    /\ [](NoLevelsFound =>
            /\ pc = "done" /\ result = Some("NoLevels")
            /\ zoom_level = None /\ prompts = 0
            /\ NoTileStarted)
    /\ [][~(ProbeFailed \/ FetchFailed \/ UnknownDezoomer \/ NoLevelsFound)]_vars

\* the probe asked for a remote URI, the fetch succeeded, and the second call
\* of the probe failed
C16_Witness ==
    /\ ProbeFailed
    /\ Len(probe_calls) = 2
    /\ fetches # <<>>
    /\ fetches[1].contents # None
    /\ result = Some("Dezoomer")

-----------------------------------------------------------------------------
(* C17 *)

\* no selection policy is given on the command line
NoPolicy == ~args.largest /\ args.max_width = None /\ args.max_height = None

\* the line read last is an integer that is an index of the vector of levels
ValidLine(l) == is_some(l) /\ unwrap(l) < Len(levels)

\* C17: with two or more levels, when no policy is given or no level is
\* eligible for the policy given (no level has a size hint, or no hinted level
\* satisfies the bounds), choose_level calls the picker; the picker goes on
\* prompting after every line that is not an integer or not an index of the
\* vector, however many there were, and ends no run for that reason; the first
\* line that is a valid index i makes it return, and the level is the one
\* listed at i.
C17_PickerFallback ==
    /\ []((Len(levels) >= 2 /\ (NoPolicy \/ Eligible = {}) /\ pc # "choose_level")
          => (pc = "level_picker" \/ prompts >= 1))
    /\ [](pc = "level_picker"
          => (result = None /\ zoom_level = None /\ ~ValidLine(line)))
    /\ []((pc = "done" /\ prompts >= 1) => (result = Some("panic") /\ ~ValidLine(line)))
    /\ []((pc = "chosen" /\ prompts >= 1)
          => (ValidLine(line) /\ zoom_level = Some(unwrap(line) + 1)))
    /\ [][(pc = "level_picker" /\ pc' # "done") =>
            /\ prompts' = prompts + 1
            /\ pc' = IF ValidLine(line') THEN "chosen" ELSE "level_picker"]_vars

\* a bound that no hinted level satisfies, a line that is no index, then the
\* index 0: the first of three levels is returned at the second prompt
C17_Witness ==
    /\ pc = "chosen"
    /\ prompts = 2
    /\ Len(levels) = 3
    /\ ~NoPolicy
    /\ Hinted # {}
    /\ Eligible = {}
    /\ line = Some(0)
    /\ zoom_level = Some(1)

-----------------------------------------------------------------------------
(* C18 *)

\* C18: the canvas is taken out of its mutex (count() has returned) and the
\* image is saved only when every tile attempt has completed; from then on no
\* add_tile happens and the canvas does not change; the image is saved at most
\* once, by the step that follows the final message, and no step follows it.
C18_SaveAfterAllTiles ==
    /\ []((pc = "final_msg" \/ TilePhaseOver) => (Completed = Tiles /\ Running = {}))
    /\ [](saved => (pc = "done" /\ TilePhaseOver /\ Completed = Tiles))
    /\ [][TilePhaseOver =>
            (canvas' = canvas /\ image' = image /\ tile_state' = tile_state)]_vars
    /\ [][saved' => (~saved /\ pc = "final_msg")]_vars
    /\ [][~saved]_vars

\* the image saved after three attempts by several threads, two of them merged
C18_Witness ==
    /\ saved
    /\ pool_size >= 2
    /\ total_tiles = 3
    /\ Cardinality(canvas) = 2
    /\ Cardinality(Completed) = 3

-----------------------------------------------------------------------------
(* C19 *)

\* C19: the key s.x * s.y that best_size compares orders the size hints by
\* their area width * height: when choose_level has compared the hints of the
\* eligible levels of a vector of several, no product exceeded 32 bits, and a
\* hint of smaller area had a smaller key.
C19_AreaKeyOrdersByArea ==
    (pc # "choose_level" /\ Len(levels) >= 2 /\ ~NoPolicy)
    => \A i, j \in Eligible :
          /\ ~mul_overflows(hint(i).x, hint(i).y)
          /\ AreaLess(hint(i), hint(j)) => key_lt(area_key(hint(i)), area_key(hint(j)))

-----------------------------------------------------------------------------
(* C20 *)

\* the three outcomes of the tile phase
FullSuccess == WentOnToSave /\ progress.msg = <<"Downloaded all tiles.">>

PartialSuccess ==
    /\ WentOnToSave
    /\ Len(progress.msg) = 4
    /\ progress.msg[1] = "Successfully downloaded"

NoTileOutcome == pc = "done" /\ result = Some("NoTile")

ExactlyOneOutcome ==
    /\ FullSuccess \/ PartialSuccess \/ NoTileOutcome
    /\ ~(FullSuccess /\ PartialSuccess)
    /\ ~(FullSuccess /\ NoTileOutcome)
    /\ ~(PartialSuccess /\ NoTileOutcome)

\* C20: when every call of Tile::download and of add_tile returns and the
\* threads are scheduled fairly, the tile phase terminates: while it lasts
\* some step is possible (no deadlock); a thread that waits for the mutex of
\* the canvas gets it, and the thread that holds it for a merge releases it;
\* the attempt of every tile completes; and the run reaches its end with
\* exactly one of full success, partial success and NoTile.
C20_TilePhaseTerminates ==
    /\ [](pc \in {"par_iter", "final_msg"} => ENABLED <<NextTiles>>_vars)
    /\ \A t \in 1..MaxTiles :
          (t \in Tiles /\ tile_state[t] = "lock") ~> (t \in Merging)
    /\ \A t \in 1..MaxTiles : (t \in Merging) ~> (Merging = {})
    /\ (pc = "par_iter") ~> (pc = "final_msg" /\ Completed = Tiles)
    /\ (pc = "par_iter") ~> (pc = "done" /\ ExactlyOneOutcome)
    /\ []((pc = "done" /\ TilePhaseOver) => ExactlyOneOutcome)

\* the run has ended after a thread had to wait for the mutex: three tiles,
\* all merged by several threads
C20_Witness ==
    /\ pc = "done"
    /\ FullSuccess
    /\ pool_size >= 2
    /\ total_tiles = 3
    /\ canvas = {1, 2, 3}

=============================================================================
